---- MODULE Spec2Model ----
(***************************************************************************)
(* A model of bin/prep.js, the data-preparation command of                 *)
(* neural-networks-cli: a CSV of daily price/volume rows is read, sorted   *)
(* by date, enriched with day-over-day percentage changes and moving       *)
(* averages, and written out as CSV or JSON.                               *)
(*                                                                         *)
(* Representation.  A JavaScript string is a tuple of one-character        *)
(* strings, so that split, trim, replace, parseFloat, Number and toFixed   *)
(* are computed character by character.  A JavaScript number is a record   *)
(* [k, n, d]: k = "fin" with the exact fraction n/d in lowest terms        *)
(* (d > 0), or k = "NaN", "Infinity", "-Infinity".  Arithmetic is exact    *)
(* where IEEE-754 doubles round; negative zero is not distinguished from   *)
(* zero.  A point in time (Date) is counted in whole days since            *)
(* 1970-01-01 instead of milliseconds: date-only texts parse to UTC        *)
(* midnight, so the order and the sign of every difference are the same.   *)
(***************************************************************************)
EXTENDS Integers, Sequences, FiniteSets, TLC

VARIABLES
    argv,       \* the parsed command line (process.argv through mri)
    csv,        \* the parsed input file: header row followed by data rows
    data,       \* the record sequence travelling through the pipeline
    lengths,    \* movingAverageLengths, once movingAverages() has run
    stage,      \* index of the next moving-average stage to apply
    written,    \* what saveToFile wrote
    pc          \* position of the run

vars == <<argv, csv, data, lengths, stage, written, pc>>

----------------------------------------------------------------------------
(* JavaScript numbers *)

Abs(x) == IF x < 0 THEN -x ELSE x

RECURSIVE Gcd(_, _)
Gcd(a, b) == IF b = 0 THEN a ELSE Gcd(b, a % b)

NaN == [k |-> "NaN", n |-> 0, d |-> 1]
PosInfinity == [k |-> "Infinity", n |-> 0, d |-> 1]
NegInfinity == [k |-> "-Infinity", n |-> 0, d |-> 1]

\* the number n/d (d # 0), in lowest terms with a positive denominator
Fin(n, d) ==
    LET g == Gcd(Abs(n), Abs(d))
        s == IF d < 0 THEN -1 ELSE 1
    IN  [k |-> "fin", n |-> s * (n \div g), d |-> s * (d \div g)]

Whole(i) == [k |-> "fin", n |-> i, d |-> 1]

IsFinite(a) == a.k = "fin"
Sign(a) == IF a.k = "Infinity" THEN 1
           ELSE IF a.k = "-Infinity" THEN -1
           ELSE IF a.n > 0 THEN 1 ELSE IF a.n < 0 THEN -1 ELSE 0
Inf(s) == IF s > 0 THEN PosInfinity ELSE NegInfinity

\* a + b
NumAdd(a, b) ==
    IF a.k = "NaN" \/ b.k = "NaN" THEN NaN
    ELSE IF IsFinite(a) /\ IsFinite(b) THEN Fin(a.n * b.d + b.n * a.d, a.d * b.d)
    ELSE IF IsFinite(a) THEN b
    ELSE IF IsFinite(b) THEN a
    ELSE IF a.k = b.k THEN a ELSE NaN

NumNeg(a) ==
    IF a.k = "NaN" THEN NaN
    ELSE IF IsFinite(a) THEN Fin(-a.n, a.d)
    ELSE Inf(-Sign(a))

\* a - b
NumSub(a, b) == NumAdd(a, NumNeg(b))

\* a * b
NumMul(a, b) ==
    IF a.k = "NaN" \/ b.k = "NaN" THEN NaN
    ELSE IF IsFinite(a) /\ IsFinite(b) THEN Fin(a.n * b.n, a.d * b.d)
    ELSE IF Sign(a) = 0 \/ Sign(b) = 0 THEN NaN
    ELSE Inf(Sign(a) * Sign(b))

\* a / b: a finite number over zero is an infinity, zero over zero is NaN
NumDiv(a, b) ==
    IF a.k = "NaN" \/ b.k = "NaN" THEN NaN
    ELSE IF IsFinite(a) /\ IsFinite(b)
         THEN IF b.n # 0 THEN Fin(a.n * b.d, a.d * b.n)
              ELSE IF a.n = 0 THEN NaN ELSE Inf(Sign(a))
    ELSE IF IsFinite(a) THEN Whole(0)
    ELSE IF IsFinite(b) THEN Inf(Sign(a) * (IF b.n < 0 THEN -1 ELSE 1))
    ELSE NaN

\* a < b; every comparison with NaN is false
NumLess(a, b) ==
    /\ a.k # "NaN" /\ b.k # "NaN"
    /\ IF IsFinite(a) /\ IsFinite(b) THEN a.n * b.d < b.n * a.d
       ELSE Sign(NumSub(a, b)) < 0 /\ a # b

\* ToIntegerOrInfinity of a finite number: truncation towards zero
Trunc(a) == IF a.n >= 0 THEN a.n \div a.d ELSE -((-a.n) \div a.d)

----------------------------------------------------------------------------
(* JavaScript strings *)

DigitChars == <<"0", "1", "2", "3", "4", "5", "6", "7", "8", "9">>
IsDigit(c) == \E i \in 1..10 : DigitChars[i] = c
DigitVal(c) == (CHOOSE i \in 1..10 : DigitChars[i] = c) - 1

RECURSIVE Pow10(_)
Pow10(e) == IF e = 0 THEN 1 ELSE 10 * Pow10(e - 1)

\* String.prototype.trim
RECURSIVE TrimLeft(_)
TrimLeft(s) == IF s # <<>> /\ Head(s) = " " THEN TrimLeft(Tail(s)) ELSE s
RECURSIVE TrimRight(_)
TrimRight(s) ==
    IF s # <<>> /\ s[Len(s)] = " " THEN TrimRight(SubSeq(s, 1, Len(s) - 1)) ELSE s
Trim(s) == TrimRight(TrimLeft(s))

\* s.replace(/,/g, '')
RECURSIVE RemoveCommas(_)
RemoveCommas(s) ==
    IF s = <<>> THEN <<>>
    ELSE IF Head(s) = "," THEN RemoveCommas(Tail(s))
    ELSE <<Head(s)>> \o RemoveCommas(Tail(s))

\* s.split(','): the pieces between the commas, empty pieces included
RECURSIVE SplitAcc(_, _)
SplitAcc(s, piece) ==
    IF s = <<>> THEN <<piece>>
    ELSE IF Head(s) = "," THEN <<piece>> \o SplitAcc(Tail(s), <<>>)
    ELSE SplitAcc(Tail(s), Append(piece, Head(s)))
Split(s) == SplitAcc(s, <<>>)

\* the first position at or after i that holds no digit
RECURSIVE SkipDigits(_, _)
SkipDigits(s, i) == IF i <= Len(s) /\ IsDigit(s[i]) THEN SkipDigits(s, i + 1) ELSE i

\* the value of the digits s[from .. to-1]
RECURSIVE DigitsValue(_, _, _)
DigitsValue(s, from, to) ==
    IF from >= to THEN 0
    ELSE 10 * DigitsValue(s, from, to - 1) + DigitVal(s[to - 1])

\* The decimal literal at the start of s: [sign] digits [. digits].
\* ok: a literal with at least one digit was read; end: first position after it.
\* (Exponents, hexadecimal and "Infinity" literals are not in the alphabet.)
ScanDecimal(s) ==
    LET signed  == s # <<>> /\ s[1] \in {"-", "+"}
        p       == IF signed THEN 2 ELSE 1
        intEnd  == SkipDigits(s, p)
        dotted  == intEnd <= Len(s) /\ s[intEnd] = "."
        fracEnd == IF dotted THEN SkipDigits(s, intEnd + 1) ELSE intEnd
        nFrac   == IF dotted THEN fracEnd - (intEnd + 1) ELSE 0
        ok      == intEnd > p \/ nFrac > 0
        mag     == DigitsValue(s, p, intEnd) * Pow10(nFrac)
                     + (IF dotted THEN DigitsValue(s, intEnd + 1, fracEnd) ELSE 0)
        sgn     == IF signed /\ s[1] = "-" THEN -1 ELSE 1
    IN  [ok |-> ok, end |-> fracEnd, value |-> Fin(sgn * mag, Pow10(nFrac))]

\* Number.parseFloat: the longest numeric prefix after leading blanks, else NaN
ParseFloat(s) ==
    LET r == ScanDecimal(TrimLeft(s))
    IN  IF r.ok THEN r.value ELSE NaN

StrNaN == <<"N", "a", "N">>
StrInfinity == <<"I", "n", "f", "i", "n", "i", "t", "y">>

\* Number(string): blank is 0; otherwise the whole trimmed text must be a literal
Number(s) ==
    LET t == Trim(s)
        r == ScanDecimal(t)
    IN  IF t = <<>> THEN Whole(0)
        ELSE IF t = StrInfinity \/ t = <<"+">> \o StrInfinity THEN PosInfinity
        ELSE IF t = <<"-">> \o StrInfinity THEN NegInfinity
        ELSE IF r.ok /\ r.end = Len(t) + 1 THEN r.value
        ELSE NaN

\* isNaN(string)
IsNaN(s) == Number(s).k = "NaN"

\* the decimal digits of a natural number
RECURSIVE NatToChars(_)
NatToChars(m) ==
    IF m < 10 THEN <<DigitChars[m + 1]>>
    ELSE Append(NatToChars(m \div 10), DigitChars[(m % 10) + 1])

\* Number.prototype.toFixed(f): the nearest integer to |x| * 10^f, the larger
\* one on a tie, written with f digits after the point
ToFixed(x, f) ==
    IF x.k = "NaN" THEN StrNaN
    ELSE IF x.k = "Infinity" THEN StrInfinity
    ELSE IF x.k = "-Infinity" THEN <<"-">> \o StrInfinity
    ELSE LET neg    == x.n < 0
             scaled == Abs(x.n) * Pow10(f)
             m      == (2 * scaled + x.d) \div (2 * x.d)
             digits == NatToChars(m)
             pad    == IF Len(digits) > f THEN digits
                       ELSE [i \in 1..(f + 1 - Len(digits)) |-> "0"] \o digits
             k      == Len(pad) - f
             body   == IF f = 0 THEN pad
                       ELSE SubSeq(pad, 1, k) \o <<".">> \o SubSeq(pad, k + 1, Len(pad))
         IN  (IF neg THEN <<"-">> ELSE <<>>) \o body

----------------------------------------------------------------------------
(* Dates *)

\* days from 1970-01-01 to the civil date y-m-d (proleptic Gregorian calendar)
DaysFromCivil(y, m, d) ==
    LET yy  == IF m <= 2 THEN y - 1 ELSE y
        era == yy \div 400
        yoe == yy - era * 400
        mp  == IF m > 2 THEN m - 3 ELSE m + 9
        doy == (153 * mp + 2) \div 5 + d - 1
        doe == yoe * 365 + yoe \div 4 - yoe \div 100 + doy
    IN  era * 146097 + doe - 719468

\* new Date(text).getTime() for a date-only text YYYY-MM-DD, in days; any other
\* text is an Invalid Date, whose time value is NaN
DateValue(s) ==
    IF /\ Len(s) = 10
       /\ s[5] = "-" /\ s[8] = "-"
       /\ \A i \in {1, 2, 3, 4, 6, 7, 9, 10} : IsDigit(s[i])
       /\ DigitsValue(s, 6, 8) \in 1..12
       /\ DigitsValue(s, 9, 11) \in 1..31
    THEN Whole(DaysFromCivil(DigitsValue(s, 1, 5), DigitsValue(s, 6, 8),
                             DigitsValue(s, 9, 11)))
    ELSE NaN

----------------------------------------------------------------------------
(* Cells, column names and records *)

\* a cell holding a string
Str(s) == [isNum |-> FALSE, s |-> s, num |-> NaN]
\* a cell holding a number
NumCell(x) == [isNum |-> TRUE, s |-> <<>>, num |-> x]

CURRENCY_DECIMAL_PLACES == 2
DATE_CELL == "Date"
NOT_APPLICABLE == Str(<<"-">>)
VALUE_CELLS == <<"Open", "High", "Low", "Close">>

\* A column name.  kind "raw": the input column f; "change": the derived
\* percentage-change column of f; "ma": `${f} Moving Average - ${w} days`,
\* where the text of the number w stands for its value.
Col(f) == [f |-> f, kind |-> "raw", w |-> NaN]
VolumeChangeCol == [f |-> "Volume", kind |-> "change", w |-> NaN]
PriceChangeCol(key) == [f |-> key, kind |-> "change", w |-> NaN]
\* (the same name for every window length: `${cell} Moving Average`)
MovingAverageCellNameShared(cell, multiplier) == [f |-> cell, kind |-> "ma", w |-> NaN]
MovingAverageCellName(cell, multiplier) == [f |-> cell, kind |-> "ma", w |-> multiplier]

\* An object: its own keys in insertion order, and the value of each.
EmptyObject == [keys |-> <<>>, vals |-> <<>>]
Has(obj, key) == \E i \in 1..Len(obj.keys) : obj.keys[i] = key
Get(obj, key) == obj.vals[CHOOSE i \in 1..Len(obj.keys) : obj.keys[i] = key]

\* obj[key] = value: an existing key keeps its place
Set(obj, key, value) ==
    IF Has(obj, key)
    THEN [obj EXCEPT !.vals[CHOOSE i \in 1..Len(obj.keys) : obj.keys[i] = key] = value]
    ELSE [keys |-> Append(obj.keys, key), vals |-> Append(obj.vals, value)]

\* Object.assign(target, source)
RECURSIVE AssignFrom(_, _, _)
AssignFrom(target, source, i) ==
    IF i > Len(source.keys) THEN target
    ELSE AssignFrom(Set(target, source.keys[i], source.vals[i]), source, i + 1)
ObjectAssign(target, source) == AssignFrom(target, source, 1)

\* Object.keys and Object.values
ObjectKeys(obj) == obj.keys
ObjectValues(obj) == obj.vals

\* Array.prototype.slice(start, end) with numeric arguments
RelativeIndex(x, len) ==
    IF x.k = "NaN" THEN 0
    ELSE IF x.k = "Infinity" THEN len
    ELSE IF x.k = "-Infinity" THEN 0
    ELSE LET t == Trunc(x)
         IN  IF t < 0 THEN (IF len + t > 0 THEN len + t ELSE 0)
             ELSE IF t < len THEN t ELSE len
Slice(arr, start, end) ==
    LET from == RelativeIndex(start, Len(arr))
        to   == RelativeIndex(end, Len(arr))
    IN  SubSeq(arr, from + 1, to)

\* rows.map(row => row.reduce((accum, elem, i) =>
\*     Object.assign(accum, { [headers[i]]: elem }), {}))
RECURSIVE RowToObject(_, _, _, _)
RowToObject(row, headers, i, accum) ==
    IF i > Len(row) THEN accum
    ELSE RowToObject(row, headers, i + 1, Set(accum, Col(headers[i]), Str(row[i])))
rowsToObjects(rows, headers) ==
    [r \in 1..Len(rows) |-> RowToObject(rows[r], headers, 1, EmptyObject)]

----------------------------------------------------------------------------
(* The pipeline's stages *)

\* the comparator with its operands exchanged: b - a
CompareDatesReversed(dateKey, a, b) ==
    NumSub(DateValue(Get(b, Col(dateKey)).s), DateValue(Get(a, Col(dateKey)).s))

\* the comparator of sortDataByDate: new Date(a[dateKey]) - new Date(b[dateKey])
CompareDates(dateKey, a, b) ==
    NumSub(DateValue(Get(a, Col(dateKey)).s), DateValue(Get(b, Col(dateKey)).s))

\* One insertion step of Array.prototype.sort: elem moves left past every
\* element the comparator puts after it (a result that is NaN counts as 0).
RECURSIVE InsertByDate(_, _, _)
InsertByDate(dateKey, sorted, elem) ==
    IF sorted = <<>> THEN <<elem>>
    ELSE LET last  == sorted[Len(sorted)]
             order == CompareDates(dateKey, last, elem)
         IN  IF order.k # "NaN" /\ Sign(order) > 0
             THEN Append(InsertByDate(dateKey, SubSeq(sorted, 1, Len(sorted) - 1), elem),
                         last)
             ELSE Append(sorted, elem)

RECURSIVE SortFrom(_, _, _)
SortFrom(dateKey, arr, i) ==
    IF i = 0 THEN <<>>
    ELSE InsertByDate(dateKey, SortFrom(dateKey, arr, i - 1), arr[i])

\* data.sort((a, b) => new Date(a[dateKey]) - new Date(b[dateKey]))
sortDataByDate(dateKey, arr) == SortFrom(dateKey, arr, Len(arr))

\* Number(num).toFixed(CURRENCY_DECIMAL_PLACES)
numberToCurrencyValue(num) == Str(ToFixed(num, CURRENCY_DECIMAL_PLACES))

\* window.reduce((cellAccum, row) => cellAccum + Number(row[cell]), 0)
RECURSIVE SumCell(_, _, _)
SumCell(window, cell, n) ==
    IF n = 0 THEN Whole(0)
    ELSE NumAdd(SumCell(window, cell, n - 1), Number(Get(window[n], Col(cell)).s))

\* the window taken one row too early: data.slice(i - multiplier, i)
MovingAverageCellEarly(multiplier, arr, i, cell) ==
    IF NumLess(Whole(i), NumSub(multiplier, Whole(1)))
    THEN NOT_APPLICABLE
    ELSE LET window == Slice(arr, NumSub(Whole(i), multiplier), Whole(i))
             sum    == SumCell(window, cell, Len(window))
         IN  numberToCurrencyValue(NumDiv(sum, multiplier))

\* the value of one moving-average column at row index i (0-based)
MovingAverageCell(multiplier, arr, i, cell) ==
    IF NumLess(Whole(i), NumSub(multiplier, Whole(1)))
    THEN NOT_APPLICABLE
    ELSE LET window == Slice(arr, NumSub(Whole(i + 1), multiplier), Whole(i + 1))
             sum    == SumCell(window, cell, Len(window))
         IN  numberToCurrencyValue(NumDiv(sum, multiplier))

\* VALUE_CELLS.reduce(...): the four moving-average columns of row index i
RECURSIVE Avgs(_, _, _, _)
Avgs(multiplier, arr, i, c) ==
    IF c = 0 THEN EmptyObject
    ELSE Set(Avgs(multiplier, arr, i, c - 1),
             MovingAverageCellName(VALUE_CELLS[c], multiplier),
             MovingAverageCell(multiplier, arr, i, VALUE_CELLS[c]))

\* movingAverage(multiplier)(data)
movingAverage(multiplier, arr) ==
    [j \in 1..Len(arr) |->
        ObjectAssign(arr[j], Avgs(multiplier, arr, j - 1, Len(VALUE_CELLS)))]

\* (new - old) / old * 100 on two cell texts, commas removed before parsing
PercentageChange(oldText, newText) ==
    LET oldValue == ParseFloat(RemoveCommas(oldText))
        newValue == ParseFloat(RemoveCommas(newText))
    IN  NumMul(NumDiv(NumSub(newValue, oldValue), oldValue), Whole(100))

\* the volume change with the price change's guard: i - 1 > 0
VolumeChangeStrict(arr, i) ==
    LET volumeKey == Col("Volume")
    IN  IF /\ i - 1 > 0
           /\ Get(arr[i + 1], volumeKey) # NOT_APPLICABLE
           /\ Get(arr[i], volumeKey) # NOT_APPLICABLE
        THEN NumCell(PercentageChange(Get(arr[i], volumeKey).s,
                                      Get(arr[i + 1], volumeKey).s))
        ELSE Str(<<"-">>)

\* the 'Daily Change in Volume' of row index i (0-based)
VolumeChange(arr, i) ==
    LET volumeKey == Col("Volume")
    IN  IF /\ i - 1 >= 0
           /\ Get(arr[i + 1], volumeKey) # NOT_APPLICABLE
           /\ Get(arr[i], volumeKey) # NOT_APPLICABLE
        THEN NumCell(PercentageChange(Get(arr[i], volumeKey).s,
                                      Get(arr[i + 1], volumeKey).s))
        ELSE Str(<<"-">>)

percentagesChangeInVolume(arr) ==
    [j \in 1..Len(arr) |-> Set(arr[j], VolumeChangeCol, VolumeChange(arr, j - 1))]

\* the price change with the volume change's guard: i - 1 >= 0
PriceChangeFromFirst(arr, i, key) ==
    IF /\ i - 1 >= 0
       /\ Get(arr[i + 1], Col(key)) # NOT_APPLICABLE
       /\ Get(arr[i], Col(key)) # NOT_APPLICABLE
    THEN NumCell(PercentageChange(Get(arr[i], Col(key)).s, Get(arr[i + 1], Col(key)).s))
    ELSE Str(<<"-">>)

\* the '<key> - Daily Percentage Change' of row index i (0-based)
PriceChange(arr, i, key) ==
    IF /\ i - 1 > 0
       /\ Get(arr[i + 1], Col(key)) # NOT_APPLICABLE
       /\ Get(arr[i], Col(key)) # NOT_APPLICABLE
    THEN NumCell(PercentageChange(Get(arr[i], Col(key)).s, Get(arr[i + 1], Col(key)).s))
    ELSE Str(<<"-">>)

PRICE_KEYS == <<"Open", "High", "Low", "Close">>

\* priceKeys.reduce(...): the four price-change columns of row index i
RECURSIVE PriceChanges(_, _, _)
PriceChanges(arr, i, c) ==
    IF c = 0 THEN EmptyObject
    ELSE Set(PriceChanges(arr, i, c - 1), PriceChangeCol(PRICE_KEYS[c]),
             PriceChange(arr, i, PRICE_KEYS[c]))

percentagesChangeInPrices(arr) ==
    [j \in 1..Len(arr) |->
        ObjectAssign(arr[j], PriceChanges(arr, j - 1, Len(PRICE_KEYS)))]

DEFAULT_MOVING_AVERAGES == <<Whole(5), Whole(50), Whole(100), Whole(200)>>

\* formatInputtedMovingAverages: null for a missing or empty option; otherwise
\* the trimmed pieces as numbers; process.exit(1) at the first piece isNaN rejects
formatInputtedMovingAverages(avgsString) ==
    LET pieces == Split(avgsString.s)
        tokens == [i \in 1..Len(pieces) |-> Trim(pieces[i])]
    IN  IF ~avgsString.given \/ avgsString.s = <<>>
        THEN [null |-> TRUE, exit |-> FALSE, value |-> <<>>]
        ELSE IF \E i \in 1..Len(tokens) : IsNaN(tokens[i])
        THEN [null |-> FALSE, exit |-> TRUE, value |-> <<>>]
        ELSE [null |-> FALSE, exit |-> FALSE,
              value |-> [i \in 1..Len(tokens) |-> Number(tokens[i])]]

\* the window lengths movingAverages() builds its stages from
movingAverageLengths(args) ==
    LET formatted == formatInputtedMovingAverages(args.movingAverages)
    IN  IF formatted.null THEN DEFAULT_MOVING_AVERAGES ELSE formatted.value

hasMultipleOutputTypes(args) ==
    LET count == (IF args.json THEN 1 ELSE 0) + (IF args.csv THEN 1 ELSE 0)
    IN  count > 1

\* JSON.stringify(data, null, 4): every record, in order, each with its keys
convertToJson(arr) ==
    [format |-> "json", headers |-> <<>>, body |-> <<>>, objects |-> arr]

\* stringify([Object.keys(data[0]), ...data.slice(1).map(Object.values)])
convertToCsv(arr) ==
    [format  |-> "csv",
     headers |-> ObjectKeys(arr[1]),
     body    |-> LET rest == Slice(arr, Whole(1), Whole(Len(arr)))
                 IN  [j \in 1..Len(rest) |-> ObjectValues(rest[j])],
     objects |-> <<>>]

----------------------------------------------------------------------------
(* Inputs *)

\* the most data rows an enumerated input file holds
MaxRows == 3

HEADERS == <<"Date", "Open", "High", "Low", "Close", "Volume">>

Jan01 == <<"2", "0", "2", "0", "-", "0", "1", "-", "0", "1">>
Jan02 == <<"2", "0", "2", "0", "-", "0", "1", "-", "0", "2">>
Jan03 == <<"2", "0", "2", "0", "-", "0", "1", "-", "0", "3">>
Jan04 == <<"2", "0", "2", "0", "-", "0", "1", "-", "0", "4">>
Jan05 == <<"2", "0", "2", "0", "-", "0", "1", "-", "0", "5">>

T0 == <<"0">>
T10 == <<"1", "0">>
T20 == <<"2", "0">>
T25 == <<"2", "5">>
T30 == <<"3", "0">>
T40 == <<"4", "0">>
T50 == <<"5", "0">>
T100 == <<"1", "0", "0">>
T150 == <<"1", "5", "0">>
T1000 == <<"1", ",", "0", "0", "0">>
Dash == <<"-">>

\* The data rows input files are made of, cells in HEADERS order: plain
\* values, a missing volume, and a row that shares its date with another and
\* holds a zero price, a missing price, a price with a thousands separator
\* and a zero volume.
SampleRows ==
    { <<Jan01, T10, T10, T10, T10, T100>>,
      <<Jan02, T20, T20, T20, T20, Dash>>,
      <<Jan03, T30, T30, T30, T30, T150>>,
      <<Jan02, T0, Dash, T1000, T25, T0>> }

\* five consecutive days with closing prices 10 .. 50, given out of order,
\* one volume with a thousands separator
ExampleRows ==
    << <<Jan03, T30, T30, T30, T30, T150>>,
       <<Jan01, T10, T10, T10, T10, T100>>,
       <<Jan05, T50, T50, T50, T50, T100>>,
       <<Jan02, T20, T20, T20, T20, T100>>,
       <<Jan04, T40, T40, T40, T40, T1000>> >>

\* the parsed input files: the header row, then the data rows
CsvFiles ==
    { <<HEADERS>> \o rows :
        rows \in UNION { [1..n -> SampleRows] : n \in 0..MaxRows } \cup {ExampleRows} }

\* the texts given to --moving-averages
MovingAverageTexts ==
    { <<"1">>, <<"2", ",", " ", "3">>, <<"0">>, <<"-", "1">>, <<"1", ".", "5">>,
      <<"3", ",", ",", "2">>, <<"2", ",", "x">>, <<>> }

\* args['moving-averages']: not given, or the text given
MovingAverageOptions ==
    { [given |-> FALSE, s |-> <<>>] } \cup
    { [given |-> TRUE, s |-> t] : t \in MovingAverageTexts }

\* the parsed command lines: --help, --json, --csv, whether a file is named
\* (args._[0]), and --moving-averages
\* (a run that stops at --help or for want of a file reads no other option,
\* so those runs are enumerated with the other options left out; the output
\* options are combined with two of the --moving-averages options)
CommandLines ==
    { a \in [help : BOOLEAN, json : BOOLEAN, csv : BOOLEAN, file : BOOLEAN,
             movingAverages : MovingAverageOptions] :
        /\ (a.help \/ ~a.file) => (~a.json /\ ~a.csv /\ ~a.movingAverages.given)
        /\ (a.json \/ a.csv) =>
              (a.movingAverages.given => a.movingAverages.s = <<"2", ",", " ", "3">>) }

\* nothing written
NoFile == [format |-> "none", headers |-> <<>>, body |-> <<>>, objects |-> <<>>]

----------------------------------------------------------------------------
(* The run *)

Init ==
    /\ argv \in CommandLines
    /\ csv \in CsvFiles
    /\ data = <<>>
    /\ lengths = <<>>
    /\ stage = 1
    /\ written = NoFile
    /\ pc = "main"

\* main(), up to the call of the pipeline: --help prints the usage and exits
\* with 0, a missing file argument exits with 1, a file that cannot be read
\* rejects and exits with 1; otherwise the rows become records
Main ==
    /\ pc = "main"
    /\ \/ /\ argv.help
          /\ pc' = "exit0"
          /\ UNCHANGED data
       \/ /\ ~argv.help /\ ~argv.file
          /\ pc' = "exit1"
          /\ UNCHANGED data
       \/ /\ ~argv.help /\ argv.file
          /\ pc' = "exit1"
          /\ UNCHANGED data
       \/ /\ ~argv.help /\ argv.file
          /\ data' = rowsToObjects(Tail(csv), Head(csv))
          /\ pc' = "sort"
    /\ UNCHANGED <<argv, csv, lengths, stage, written>>

\* the first function of main's pipe: sortDataByDate.bind(null, DATE_CELL)
SortData ==
    /\ pc = "sort"
    /\ data' = sortDataByDate(DATE_CELL, data)
    /\ pc' = "prepare"
    /\ UNCHANGED <<argv, csv, lengths, stage, written>>

\* prepareData evaluating ...movingAverages(): the option is read and checked
\* only now, after the sort, and before the first transform runs
MovingAverages ==
    /\ pc = "prepare"
    /\ IF formatInputtedMovingAverages(argv.movingAverages).exit
       THEN /\ pc' = "exit1"
            /\ UNCHANGED lengths
       ELSE /\ lengths' = movingAverageLengths(argv)
            /\ pc' = "volume"
    /\ UNCHANGED <<argv, csv, data, stage, written>>

PercentagesChangeInVolume ==
    /\ pc = "volume"
    /\ data' = percentagesChangeInVolume(data)
    /\ pc' = "prices"
    /\ UNCHANGED <<argv, csv, lengths, stage, written>>

PercentagesChangeInPrices ==
    /\ pc = "prices"
    /\ data' = percentagesChangeInPrices(data)
    /\ pc' = "averages"
    /\ UNCHANGED <<argv, csv, lengths, stage, written>>

\* the next movingAverage(len) of the pipe
MovingAverage ==
    /\ pc = "averages"
    /\ stage <= Len(lengths)
    /\ data' = movingAverage(lengths[stage], data)
    /\ stage' = stage + 1
    /\ UNCHANGED <<argv, csv, lengths, written, pc>>

\* output(data): both output types exit with 1; Object.keys(data[0]) of an
\* empty sequence throws, which rejects and exits with 1; a failed write
\* exits with 1; otherwise the converted data is saved
Output ==
    /\ pc = "averages"
    /\ stage > Len(lengths)
    /\ \/ /\ hasMultipleOutputTypes(argv)
          /\ pc' = "exit1"
          /\ UNCHANGED written
       \/ /\ ~hasMultipleOutputTypes(argv)
          /\ argv.json
          /\ written' = convertToJson(data)
          /\ pc' = "done"
       \/ /\ ~hasMultipleOutputTypes(argv)
          /\ ~argv.json
          /\ data = <<>>
          /\ pc' = "exit1"
          /\ UNCHANGED written
       \/ /\ ~hasMultipleOutputTypes(argv)
          /\ ~argv.json
          /\ data # <<>>
          /\ written' = convertToCsv(data)
          /\ pc' = "done"
       \/ /\ ~hasMultipleOutputTypes(argv)
          /\ ~argv.json => data # <<>>
          /\ pc' = "exit1"
          /\ UNCHANGED written
    /\ UNCHANGED <<argv, csv, data, lengths, stage>>

Next ==
    \/ Main
    \/ SortData
    \/ MovingAverages
    \/ PercentagesChangeInVolume
    \/ PercentagesChangeInPrices
    \/ MovingAverage
    \/ Output

Spec == Init /\ [][Next]_vars

----------------------------------------------------------------------------
(* What the properties below speak of *)

\* the records as read, before the sort
InputRecords == rowsToObjects(Tail(csv), Head(csv))

\* the text of input column f in a record
RawOf(obj, f) == Get(obj, Col(f)).s

\* the six input cells of a record, in HEADERS order
RawRow(obj) == [h \in 1..Len(HEADERS) |-> RawOf(obj, HEADERS[h])]

\* the run has passed the sort / the volume stage / the price stage
AfterSort == pc \in {"prepare", "volume", "prices", "averages", "done"}
AfterVolume == pc \in {"prices", "averages", "done"}
AfterPrices == pc \in {"averages", "done"}

\* the window lengths whose stage has run
AppliedLengths ==
    IF AfterPrices THEN {lengths[k] : k \in 1..(stage - 1)} ELSE {}

\* the calendar order of the dates of the input alphabet, written out by hand
DayNumber(t) ==
    CASE t = Jan01 -> 1 [] t = Jan02 -> 2 [] t = Jan03 -> 3
      [] t = Jan04 -> 4 [] t = Jan05 -> 5

\* the values of the number texts of the input alphabet, written out by hand;
\* GroupedTexts are numbers only once their thousands separators are removed
PlainTexts == {T0, T10, T20, T25, T30, T40, T50, T100, T150}
GroupedTexts == {T1000}
TextValue(t) ==
    CASE t = T0 -> 0 [] t = T10 -> 10 [] t = T20 -> 20
      [] t = T25 -> 25 [] t = T30 -> 30 [] t = T40 -> 40 [] t = T50 -> 50
      [] t = T100 -> 100 [] t = T150 -> 150 [] t = T1000 -> 1000

IsPositiveInteger(w) == w.k = "fin" /\ w.d = 1 /\ w.n >= 1

\* cell holds the number (cur - prev) / prev * 100, as IEEE arithmetic gives it:
\* an exact quotient, or for prev = 0 an infinity (cur # 0) or NaN (cur = 0)
HoldsChange(cell, prev, cur) ==
    /\ cell.isNum
    /\ IF prev # 0
       THEN cell.num.k = "fin" /\ cell.num.n * prev = (cur - prev) * 100 * cell.num.d
       ELSE cell.num.k = (IF cur > 0 THEN "Infinity" ELSE "NaN")

----------------------------------------------------------------------------
(* C1 *)

\* C1: once sortDataByDate has run (every Date cell being a parseable date),
\* the records are a permutation of the input records in which no record's
\* date is later than the date of the record after it; this is the sequence
\* every later stage works on.
C1_SortedPermutation ==
    AfterSort =>
        /\ \E p \in Permutations(1..Len(data)) :
              \A j \in 1..Len(data) : RawRow(data[j]) = Tail(csv)[p[j]]
        /\ Len(data) = Len(csv) - 1
        /\ \A j \in 1..(Len(data) - 1) :
              DayNumber(RawOf(data[j], "Date")) <= DayNumber(RawOf(data[j + 1], "Date"))

\* the sort has reordered an input of three rows that came latest-first
C1_Witness ==
    /\ pc = "volume"
    /\ Len(data) = 3
    /\ DayNumber(Tail(csv)[1][1]) > DayNumber(Tail(csv)[2][1])
    /\ DayNumber(Tail(csv)[2][1]) > DayNumber(Tail(csv)[3][1])
    /\ RawRow(data[1]) = Tail(csv)[3]

----------------------------------------------------------------------------
(* C4 *)

\* the sum of field f over the records lo .. hi of the sequence
RECURSIVE FieldSum(_, _, _)
FieldSum(f, lo, hi) ==
    IF lo > hi THEN 0 ELSE FieldSum(f, lo, hi - 1) + TextValue(RawOf(data[hi], f))

\* text is the decimal text, with two digits after the point, of the
\* hundredth nearest to total / w (the larger one on a tie)
IsRoundedQuotient(text, total, w) ==
    LET q == Number(text)
    IN  /\ Len(text) >= 4 /\ text[Len(text) - 2] = "."
        /\ q.k = "fin" /\ 100 % q.d = 0
        /\ LET c == q.n * (100 \div q.d)
           IN  2 * w * c - w <= 200 * total /\ 200 * total < 2 * w * c + w

\* C4: for every window length W whose stage has run, every row index
\* i >= W-1 and each price field whose cells in the rows i-W+1 .. i are
\* numbers, the moving-average column is the sum of the field over exactly
\* those W rows of the sorted sequence, divided by W and rounded to two
\* decimal places, whatever the other rows and the other window lengths are.
\* Closing prices 10, 20, 30, 40, 50 with W = 5 give 30.00 at index 4.
C4_WindowMean ==
    /\ \A w \in AppliedLengths : \A j \in 1..Len(data) : \A c \in 1..Len(VALUE_CELLS) :
          LET f == VALUE_CELLS[c]
              W == w.n
          IN  ( /\ IsPositiveInteger(w)
                /\ j - 1 >= W - 1
                /\ \A r \in (j - W + 1)..j : RawOf(data[r], f) \in PlainTexts )
              => LET cell == Get(data[j], MovingAverageCellName(f, w))
                 IN  /\ ~cell.isNum
                     /\ IsRoundedQuotient(cell.s, FieldSum(f, j - W + 1, j), W)
    /\ (Tail(csv) = ExampleRows /\ Whole(5) \in AppliedLengths)
          => Get(data[5], MovingAverageCellName("Close", Whole(5))).s
                = <<"3", "0", ".", "0", "0">>

\* a window of three opening prices 10, 10, 20 has been averaged to 13.33
C4_Witness ==
    /\ Whole(3) \in AppliedLengths
    /\ Len(data) = 3
    /\ <<RawOf(data[1], "Open"), RawOf(data[2], "Open"), RawOf(data[3], "Open")>>
          = <<T10, T10, T20>>
    /\ Get(data[3], MovingAverageCellName("Open", Whole(3))).s
          = <<"1", "3", ".", "3", "3">>

----------------------------------------------------------------------------
(* C5 *)

\* C5: for every row index i of the sorted sequence, 'Daily Change in Volume'
\* is the sentinel when i = 0 or when the Volume cell of row i or of row i-1
\* is the sentinel; otherwise it is (current - previous) / previous * 100 on
\* the two Volume cells with their thousands separators removed.  Volumes
\* 100, '-', 150 give the sentinel at all three indices.
C5_VolumeChange ==
    AfterVolume =>
        \A j \in 1..Len(data) :
            LET cell == Get(data[j], VolumeChangeCol)
                cur  == RawOf(data[j], "Volume")
            IN  IF j = 1 \/ cur = Dash \/ RawOf(data[j - 1], "Volume") = Dash
                THEN cell = NOT_APPLICABLE
                ELSE HoldsChange(cell, TextValue(RawOf(data[j - 1], "Volume")),
                                 TextValue(cur))

\* volumes 100, 100, 150, 1,000, 100 have given the sentinel at index 0 and
\* then 0, 50, 566 2/3 and -90 per cent
C5_Witness ==
    /\ AfterVolume
    /\ Len(data) = 5
    /\ [j \in 1..5 |-> RawOf(data[j], "Volume")] = <<T100, T100, T150, T1000, T100>>
    /\ [j \in 1..5 |-> Get(data[j], VolumeChangeCol)]
          = <<NOT_APPLICABLE, NumCell(Whole(0)), NumCell(Whole(50)),
              NumCell(Fin(1700, 3)), NumCell(Whole(-90))>>

----------------------------------------------------------------------------
(* C6 *)

\* C6: for each price field, '<Field> - Daily Percentage Change' is the
\* sentinel at row index 0 and at row index 1 whatever the input, and at every
\* index i >= 2 where the field of row i or of row i-1 is the sentinel; at
\* every other index i >= 2 it is (current - previous) / previous * 100.
\* Closing prices 10, 20, 30 give the sentinel at indices 0 and 1 and 50 at
\* index 2, while the volume change can be a number from index 1.
C6_PriceChange ==
    AfterPrices =>
        \A j \in 1..Len(data) : \A c \in 1..Len(PRICE_KEYS) :
            LET key  == PRICE_KEYS[c]
                cell == Get(data[j], PriceChangeCol(key))
                cur  == RawOf(data[j], key)
            IN  IF j <= 2 \/ cur = Dash \/ RawOf(data[j - 1], key) = Dash
                THEN cell = NOT_APPLICABLE
                ELSE HoldsChange(cell, TextValue(RawOf(data[j - 1], key)), TextValue(cur))

\* closing prices 10, 20, 30 have given '-', '-', 50 while the volume change
\* of the same run is a number at index 1
C6_Witness ==
    /\ AfterPrices
    /\ Len(data) >= 3
    /\ [j \in 1..3 |-> RawOf(data[j], "Close")] = <<T10, T20, T30>>
    /\ Get(data[1], PriceChangeCol("Close")) = NOT_APPLICABLE
    /\ Get(data[2], PriceChangeCol("Close")) = NOT_APPLICABLE
    /\ Get(data[3], PriceChangeCol("Close")) = NumCell(Whole(50))
    /\ Get(data[2], VolumeChangeCol).isNum

----------------------------------------------------------------------------
(* C9 *)

\* what sort, volume change and price change alone make of the input (each
\* stage's result is bound as a value before the next stage reads it)
EnrichedWithoutAverages ==
    CHOOSE result \in
        { percentagesChangeInPrices(volumes) :
            volumes \in { percentagesChangeInVolume(sorted) :
                sorted \in { sortDataByDate(DATE_CELL, input) :
                    input \in {InputRecords} } } } : TRUE

\* C9: whatever window lengths are configured, the same input gives the same
\* row order, the same input columns and the same 'Daily Change in Volume'
\* and '<Field> - Daily Percentage Change' values: every record starts with
\* exactly what sort, volume change and price change alone make of the input,
\* and holds nothing else but 'Moving Average' columns.  No moving-average
\* stage changes a column that existed before it: in the end the columns of
\* every window length are still what that stage alone puts there.
C9_WindowsIndependent ==
    AfterPrices =>
        \A enriched \in {EnrichedWithoutAverages} :
            /\ Len(data) = Len(enriched)
            /\ \A j \in 1..Len(data) :
                  LET n == Len(enriched[j].keys)
                  IN  /\ Len(data[j].keys) >= n
                      /\ SubSeq(data[j].keys, 1, n) = enriched[j].keys
                      /\ SubSeq(data[j].vals, 1, n) = enriched[j].vals
                      /\ \A k \in (n + 1)..Len(data[j].keys) : data[j].keys[k].kind = "ma"
            /\ pc = "done" =>
                  \A k \in 1..Len(lengths) :
                      \A alone \in {movingAverage(lengths[k], enriched)} :
                          \A j \in 1..Len(data) : \A c \in 1..Len(VALUE_CELLS) :
                              LET col == MovingAverageCellName(VALUE_CELLS[c], lengths[k])
                              IN  /\ Has(data[j], col)
                                  /\ Get(data[j], col) = Get(alone[j], col)

\* a run of two stages of different window lengths over three records has
\* ended, the second stage having run with the first one's columns in place
C9_Witness ==
    /\ pc = "done"
    /\ Len(lengths) = 2
    /\ lengths[1] # lengths[2]
    /\ Len(data) = 3
    /\ Has(data[3], MovingAverageCellName("Close", lengths[1]))
    /\ Has(data[3], MovingAverageCellName("Close", lengths[2]))

----------------------------------------------------------------------------
(* C2 *)

\* the trimmed pieces of the --moving-averages text
OptionTokens ==
    LET pieces == Split(argv.movingAverages.s)
    IN  {Trim(pieces[i]) : i \in 1..Len(pieces)}

\* the token is a positive integer: digits only, and not zero
IsPositiveIntegerToken(t) ==
    /\ t # <<>>
    /\ \A i \in 1..Len(t) : IsDigit(t[i])
    /\ \E i \in 1..Len(t) : t[i] # "0"

\* C2: for every supplied --moving-averages list with a token that is not a
\* positive integer (non-numeric, empty, zero, negative or fractional), the
\* run fails before any row processing and writes nothing; the pipeline only
\* ever runs with window lengths that are all positive integers.  (Row
\* processing is read here as the transforms and the output: that the option
\* is checked only after the sort is not held against the code.)
C2_InvalidLengthFailsFast ==
    /\ ( /\ argv.movingAverages.given
         /\ argv.movingAverages.s # <<>>
         /\ \E t \in OptionTokens : ~IsPositiveIntegerToken(t) )
          => (pc \notin {"volume", "prices", "averages", "done"} /\ written = NoFile)
    /\ pc \in {"volume", "prices", "averages", "done"}
          => \A k \in 1..Len(lengths) : IsPositiveInteger(lengths[k])

----------------------------------------------------------------------------
(* C3 *)

\* the cell holds a number: a number value or the text of one
IsNumeric(cell) ==
    IF cell.isNum THEN cell.num.k = "fin"
    ELSE cell # NOT_APPLICABLE /\ cell.s # <<>> /\ Number(cell.s).k = "fin"

\* C3: for every configured window length W (a positive integer) whose stage
\* has run, every row index i and each price field, the column
\* '<Field> Moving Average - W days' holds the sentinel when i < W-1 and a
\* numeric value when i >= W-1.
C3_WindowMonotonicity ==
    \A w \in AppliedLengths : \A j \in 1..Len(data) : \A c \in 1..Len(VALUE_CELLS) :
        IsPositiveInteger(w) =>
            LET cell == Get(data[j], MovingAverageCellName(VALUE_CELLS[c], w))
            IN  IF j - 1 < w.n - 1
                THEN cell = NOT_APPLICABLE
                ELSE IsNumeric(cell)

----------------------------------------------------------------------------
(* C7 *)

\* C7: when the previous row's value is zero in a volume or price
\* percentage-change computation, the derived column of the current row is
\* the sentinel, not an error and not a non-finite or invalid number.
C7_ZeroPreviousIsSentinel ==
    /\ AfterVolume =>
          \A j \in 2..Len(data) :
              ( /\ RawOf(data[j], "Volume") # Dash
                /\ RawOf(data[j - 1], "Volume") # Dash
                /\ TextValue(RawOf(data[j - 1], "Volume")) = 0 )
              => Get(data[j], VolumeChangeCol) = NOT_APPLICABLE
    /\ AfterPrices =>
          \A j \in 3..Len(data) : \A c \in 1..Len(PRICE_KEYS) :
              ( /\ RawOf(data[j], PRICE_KEYS[c]) # Dash
                /\ RawOf(data[j - 1], PRICE_KEYS[c]) # Dash
                /\ TextValue(RawOf(data[j - 1], PRICE_KEYS[c])) = 0 )
              => Get(data[j], PriceChangeCol(PRICE_KEYS[c])) = NOT_APPLICABLE

----------------------------------------------------------------------------
(* C8 *)

\* the derived columns of a run with the given window lengths
DerivedColumns(ws) ==
    {VolumeChangeCol}
      \cup {PriceChangeCol(PRICE_KEYS[c]) : c \in 1..Len(PRICE_KEYS)}
      \cup {MovingAverageCellName(VALUE_CELLS[c], ws[k]) :
              c \in 1..Len(VALUE_CELLS), k \in 1..Len(ws)}

\* C8: after the full pipeline (here: one run with positive integer window
\* lengths) every row carries every derived column, and each derived value is
\* a valid number or exactly the sentinel; a sentinel price cell inside a
\* moving-average window gives the sentinel, never a numeric error value
\* such as NaN.
C8_TotalTransform ==
    (pc = "done" /\ \A k \in 1..Len(lengths) : IsPositiveInteger(lengths[k])) =>
        /\ \A j \in 1..Len(data) : \A col \in DerivedColumns(lengths) :
              /\ Has(data[j], col)
              /\ Get(data[j], col) = NOT_APPLICABLE \/ IsNumeric(Get(data[j], col))
        /\ \A k \in 1..Len(lengths) : \A j \in 1..Len(data) : \A c \in 1..Len(VALUE_CELLS) :
              ( /\ IsPositiveInteger(lengths[k])
                /\ j >= lengths[k].n
                /\ \E r \in (j - lengths[k].n + 1)..j : RawOf(data[r], VALUE_CELLS[c]) = Dash )
              => Get(data[j], MovingAverageCellName(VALUE_CELLS[c], lengths[k]))
                    = NOT_APPLICABLE

----------------------------------------------------------------------------
(* C10 *)

\* C10: for every non-empty enriched sequence of N records (here: of a run with
\* positive integer window lengths), what is handed to the file writer holds
\* the whole sequence: the CSV is one header row of the column names followed
\* by exactly N data rows, one per record in order from the first record on,
\* and the JSON holds the same N records in the same order.
C10_WholeSequenceWritten ==
    (pc = "done" /\ data # <<>> /\ \A k \in 1..Len(lengths) : IsPositiveInteger(lengths[k])) =>
        /\ written.format = "csv" =>
              /\ written.headers = ObjectKeys(data[1])
              /\ Len(written.body) = Len(data)
              /\ \A j \in 1..Len(data) : written.body[j] = ObjectValues(data[j])
        /\ written.format = "json" => written.objects = data

====
